---- MODULE Spec2Model ----
(***************************************************************************)
(* Model of chronicle's GitHub release summarizer                          *)
(* (chronicle/release/summarizer/github/summarizer.go) and of the loading  *)
(* of its application configuration (internal/config/application.go).      *)
(*                                                                         *)
(* Text that the code takes apart or puts together (remote URLs, refs,     *)
(* formatted URLs, "#<number>") is a sequence of one-character strings;    *)
(* the message of an error is a string.                                    *)
(***************************************************************************)
EXTENDS Integers, Sequences, FiniteSets, TLC

VARIABLES
    remoteUrl,   \* what git.RemoteUrl answers for the repository path
    built,       \* "no" before NewChangeSummarizer, then "ok" or "failed"
    s,           \* the ChangeSummarizer (zero value unless built = "ok")
    newErr,      \* the error NewChangeSummarizer returned
    pc,          \* per caller: position inside the call it is running
    call,        \* per caller: the method and its arguments
    locals,      \* per caller: the local variables of the running call
    result,      \* per caller: what the last finished call returned
    trace,       \* per caller: collaborator calls made by the current call
    app          \* LoadApplicationConfig: its inputs, position, config and return

vars == <<remoteUrl, built, s, newErr, pc, call, locals, result, trace, app>>

(***************************************************************************)
(* Bounds                                                                  *)
(***************************************************************************)
MaxTime == 3
MaxIssues == 2
MaxReleases == 2
MaxVerbosity == 3

Times == 0..MaxTime
Threads == {"t1", "t2"}

(***************************************************************************)
(* Text                                                                    *)
(***************************************************************************)
GitAt == <<"g", "i", "t", "@">>
DotGit == <<".", "g", "i", "t">>
GithubCom == <<"g", "i", "t", "h", "u", "b", ".", "c", "o", "m">>
HttpsGithub ==
    <<"h", "t", "t", "p", "s", ":", "/", "/", "g", "i", "t", "h", "u", "b", ".", "c", "o", "m", "/">>
TreeSeg == <<"/", "t", "r", "e", "e", "/">>
CompareSeg == <<"/", "c", "o", "m", "p", "a", "r", "e", "/">>
Dots3 == <<".", ".", ".">>

HasPrefix(str, prefix) ==
    /\ Len(str) >= Len(prefix)
    /\ SubSeq(str, 1, Len(prefix)) = prefix

HasSuffix(str, suffix) ==
    /\ Len(str) >= Len(suffix)
    /\ SubSeq(str, Len(str) - Len(suffix) + 1, Len(str)) = suffix

TrimSuffix(str, suffix) ==
    IF HasSuffix(str, suffix) THEN SubSeq(str, 1, Len(str) - Len(suffix)) ELSE str

\* strings.Split with a one-character separator: the pieces between the
\* separators, one more piece than there are separators.
RECURSIVE SplitFrom(_, _, _)
SplitFrom(str, sep, cur) ==
    IF str = <<>> THEN <<cur>>
    ELSE IF Head(str) = sep THEN <<cur>> \o SplitFrom(Tail(str), sep, <<>>)
    ELSE SplitFrom(Tail(str), sep, Append(cur, Head(str)))

Split(str, sep) == SplitFrom(str, sep, <<>>)

\* the decimal digits of a natural number, as %d prints it
RECURSIVE Digits(_)
Digits(n) ==
    LET d == <<"0", "1", "2", "3", "4", "5", "6", "7", "8", "9">>[(n % 10) + 1]
    IN IF n < 10 THEN <<d>> ELSE Append(Digits(n \div 10), d)

(***************************************************************************)
(* Errors                                                                  *)
(***************************************************************************)
NoError == [nil |-> TRUE, msg |-> ""]
Error(m) == [nil |-> FALSE, msg |-> m]

\* fmt.Errorf("unable to fetch all releases: %v", err): the text of err is
\* formatted into the message of a new error
FetchReleasesError(err) == Error("unable to fetch all releases: " \o err.msg)
NoReleaseError == Error("unable to find latest release")
\* fmt.Errorf("failed to parse repo=%q URL", repoUrl)
ParseError(repoUrl) == [nil |-> FALSE, msg |-> "failed to parse repo=%q URL", arg |-> repoUrl]

(***************************************************************************)
(* Application configuration                                               *)
(***************************************************************************)
\* the levels of go-logger
DisabledLevel == ""
ErrorLevel == "error"
WarnLevel == "warn"
InfoLevel == "info"
DebugLevel == "debug"
TraceLevel == "trace"

\* the log.level texts a configuration may hold
LevelTexts == {"warn", "DEBUG", "Trace", "bogus"}

ToLower(text) ==
    CASE text = "DEBUG" -> "debug"
      [] text = "Trace" -> "trace"
      [] OTHER -> text

LevelFromString(text) ==
    IF text \in {ErrorLevel, WarnLevel, InfoLevel, DebugLevel, TraceLevel}
    THEN [level |-> text, err |-> NoError]
    ELSE [level |-> DisabledLevel, err |-> Error("not a valid log level")]

\* the zero Application; parsed says whether the parsers of its fields ran
ZeroApplication ==
    [ConfigPath |-> "",
     Quiet |-> FALSE,
     Log |-> [LevelOpt |-> "", Level |-> ""],
     CliOptions |-> [ConfigPath |-> "", Verbosity |-> 0],
     SpeculateNextVersion |-> FALSE,
     UntilTag |-> "",
     parsed |-> FALSE]

BothSpecifiedError == Error("cannot specify both --speculate-next-version and --until-tag")
BadLogLevelError(level, err) ==
    Error("bad log level configured (\"" \o level \o "\"): " \o err.msg)
InvalidConfigError(err) == Error("invalid application config: " \o err.msg)
UnmarshalError == Error("unable to parse config: cannot unmarshal")
ReadConfigError == Error("unable to read application config")
FieldParserError == Error("field cannot be parsed")

\* line 95-119: the log level, from quiet, the verbosity or log.level
ParseLogLevel(cfg) ==
    IF cfg.Quiet
    THEN [cfg |-> [cfg EXCEPT !.Log.LevelOpt = DisabledLevel], err |-> NoError]
    ELSE IF cfg.CliOptions.Verbosity > 0
    THEN LET v == cfg.CliOptions.Verbosity
             lvl == CASE v = 1 -> InfoLevel
                      [] v = 2 -> DebugLevel
                      [] v >= 3 -> TraceLevel
                      [] OTHER -> WarnLevel
         IN [cfg |-> [cfg EXCEPT !.Log.LevelOpt = lvl, !.Log.Level = lvl], err |-> NoError]
    ELSE LET got == LevelFromString(ToLower(cfg.Log.Level))
         IN IF ~got.err.nil
            THEN [cfg |-> cfg, err |-> BadLogLevelError(cfg.Log.Level, got.err)]
            ELSE [cfg |-> [cfg EXCEPT !.Log.LevelOpt = got.level], err |-> NoError]

\* line 121-132: the parsers of the fields, which fail or not
ParseFields(cfg, fieldsFail) ==
    [cfg |-> [cfg EXCEPT !.parsed = TRUE],
     err |-> IF fieldsFail THEN FieldParserError ELSE NoError]

\* faulty variant: the two flags are compared after the log level is set and
\* the fields are parsed
parseConfigValuesCheckingLast(cfg, fieldsFail) ==
    LET logged == ParseLogLevel(cfg)
    IN IF ~logged.err.nil
       THEN [cfg |-> logged.cfg, err |-> logged.err, ran |-> <<"logLevel">>]
       ELSE LET fields == ParseFields(logged.cfg, fieldsFail)
            IN IF ~fields.err.nil
               THEN [cfg |-> fields.cfg, err |-> fields.err,
                     ran |-> <<"logLevel", "fieldParsers">>]
               ELSE IF cfg.SpeculateNextVersion /\ cfg.UntilTag # ""
               THEN [cfg |-> fields.cfg, err |-> BothSpecifiedError,
                     ran |-> <<"logLevel", "fieldParsers">>]
               ELSE [cfg |-> fields.cfg, err |-> NoError,
                     ran |-> <<"logLevel", "fieldParsers">>]

\* parseConfigValues on cfg: the configuration it leaves, the error it
\* returns and the parts of it that ran
parseConfigValues(cfg, fieldsFail) ==
    IF cfg.SpeculateNextVersion /\ cfg.UntilTag # ""
    THEN [cfg |-> cfg, err |-> BothSpecifiedError, ran |-> <<>>]
    ELSE LET logged == ParseLogLevel(cfg)
         IN IF ~logged.err.nil
            THEN [cfg |-> logged.cfg, err |-> logged.err, ran |-> <<"logLevel">>]
            ELSE LET fields == ParseFields(logged.cfg, fieldsFail)
                 IN [cfg |-> fields.cfg, err |-> fields.err,
                     ran |-> <<"logLevel", "fieldParsers">>]

\* what LoadApplicationConfig is given: the values viper holds, the cli
\* options, and how readConfig, Unmarshal and the field parsers fare
AppInputs ==
    [Quiet : BOOLEAN,
     Level : LevelTexts,
     SpeculateNextVersion : BOOLEAN,
     UntilTag : {"", "v0.2.0"},
     Verbosity : 0..MaxVerbosity,
     ConfigPath : {"", "chronicle.yaml"},
     readConfig : {"read", "notFound", "failed"},
     unmarshalFails : BOOLEAN,
     fieldsFail : BOOLEAN]

NoReturn == [returned |-> FALSE, hasConfig |-> FALSE, config |-> ZeroApplication, err |-> NoError]
ReturnError(err) ==
    [returned |-> TRUE, hasConfig |-> FALSE, config |-> ZeroApplication, err |-> err]
ReturnConfig(cfg) ==
    [returned |-> TRUE, hasConfig |-> TRUE, config |-> cfg, err |-> NoError]

AppOf(in) ==
    [pc |-> "load", in |-> in, cfg |-> ZeroApplication, unmarshalled |-> ZeroApplication,
     parseCalled |-> FALSE, parseErr |-> NoError, ran |-> <<>>, ret |-> NoReturn]

\* no configuration is being loaded
AppIdle ==
    [pc |-> "idle", in |-> {}, cfg |-> ZeroApplication, unmarshalled |-> ZeroApplication,
     parseCalled |-> FALSE, parseErr |-> NoError, ran |-> <<>>, ret |-> NoReturn]

\* line 55-64: the config is created, read and unmarshalled
\* (an explicit config path that cannot be read fails; a config that is not
\* found while searching is no error)
LoadUnmarshal ==
    /\ app.pc = "load"
    /\ LET in == app.in
           config == [ZeroApplication EXCEPT
                        !.CliOptions = [ConfigPath |-> in.ConfigPath,
                                        Verbosity |-> in.Verbosity]]
           readFails == \/ in.readConfig = "failed"
                        \/ (in.readConfig = "notFound" /\ in.ConfigPath # "")
           filled == [config EXCEPT
                        !.Quiet = in.Quiet,
                        !.Log.Level = in.Level,
                        !.SpeculateNextVersion = in.SpeculateNextVersion,
                        !.UntilTag = in.UntilTag,
                        !.ConfigPath = IF in.readConfig = "read"
                                       THEN "chronicle.yaml" ELSE ""]
       IN IF readFails
          THEN app' = [app EXCEPT !.pc = "returned", !.ret = ReturnError(ReadConfigError)]
          ELSE IF in.unmarshalFails
          THEN app' = [app EXCEPT !.pc = "returned", !.ret = ReturnError(UnmarshalError)]
          ELSE app' = [app EXCEPT !.pc = "parse", !.cfg = filled, !.unmarshalled = filled]
    /\ UNCHANGED <<remoteUrl, built, s, newErr, pc, call, locals, result, trace>>

\* line 66-70: the values are parsed, the config or the error is returned
LoadParse ==
    /\ app.pc = "parse"
    /\ LET parsed == parseConfigValues(app.cfg, app.in.fieldsFail)
       IN app' = [app EXCEPT
                    !.pc = "returned",
                    !.parseCalled = TRUE,
                    !.cfg = parsed.cfg,
                    !.parseErr = parsed.err,
                    !.ran = parsed.ran,
                    !.ret = IF ~parsed.err.nil
                            THEN ReturnError(InvalidConfigError(parsed.err))
                            ELSE ReturnConfig(parsed.cfg)]
    /\ UNCHANGED <<remoteUrl, built, s, newErr, pc, call, locals, result, trace>>

(***************************************************************************)
(* Repository coordinates                                                  *)
(***************************************************************************)
\* faulty variant: the .git suffix is not removed
extractGithubUserAndRepoNoTrim(url) ==
    IF ~HasPrefix(url, GitAt) THEN <<<<>>, <<>>>>
    ELSE LET fields == Split(url, ":")
             pair == Split(fields[Len(fields)], "/")
         IN IF Len(pair) # 2 THEN <<<<>>, <<>>>> ELSE <<pair[1], pair[2]>>

extractGithubUserAndRepo(url) ==
    IF ~HasPrefix(url, GitAt) THEN <<<<>>, <<>>>>
    ELSE LET fields == Split(TrimSuffix(url, DotGit), ":")
             pair == Split(fields[Len(fields)], "/")
         IN IF Len(pair) # 2 THEN <<<<>>, <<>>>> ELSE <<pair[1], pair[2]>>

(***************************************************************************)
(* Label classification table                                              *)
(***************************************************************************)
DefaultTable ==
    [l \in {"bug", "enhancement", "breaking"} |->
        CASE l = "bug" -> {"fixed"}
          [] l = "enhancement" -> {"added"}
          [] l = "breaking" -> {"breaking-change"}]

OverrideTable ==
    [l \in {"bug", "enhancement"} |->
        CASE l = "bug" -> {"fixed", "security"}
          [] l = "enhancement" -> {"added"}]

\* the tables a Summarizer may be constructed with
defaultLabelChangeTypes == {DefaultTable, OverrideTable}

labels(table) == DOMAIN table

changeTypes(table, issueLabels) ==
    UNION {table[l] : l \in issueLabels \cap DOMAIN table}

(***************************************************************************)
(* Issues and the filter pipeline                                          *)
(***************************************************************************)
IssueLabelSets == {{}, {"bug"}, {"wontfix"}, {"wontfix", "enhancement"}}

\* the i-th issue of a tracker answer: numbers 9, 10, 11, ...
IssueAt(i, ls, c) ==
    [number |-> 8 + i,
     title |-> <<"T">> \o Digits(8 + i),
     url |-> <<"i", "s", "s", "u", "e", "s", "/">> \o Digits(8 + i),
     labels |-> ls,
     closedAt |-> c]

IssueListsOf(k, labelSets, times) ==
    {[i \in 1..k |-> IssueAt(i, f[i][1], f[i][2])] :
        f \in [1..k -> labelSets \X times]}

IssueLists == UNION {IssueListsOf(k, IssueLabelSets, Times) : k \in 0..MaxIssues}

issuesAfter(t) == [kind |-> "after", t |-> t, labels |-> {}]
issuesBefore(t) == [kind |-> "before", t |-> t, labels |-> {}]
issuesWithLabel(ls) == [kind |-> "withLabel", t |-> 0, labels |-> ls]

Keeps(filter, issue) ==
    CASE filter.kind = "after" -> issue.closedAt > filter.t
      [] filter.kind = "before" -> issue.closedAt <= filter.t
      [] filter.kind = "withLabel" -> issue.labels \cap filter.labels # {}

filterIssues(issues, filters) ==
    SelectSeq(issues, LAMBDA issue : \A k \in 1..Len(filters) : Keeps(filters[k], issue))

(***************************************************************************)
(* Collaborators: the local git repository and the tracker                 *)
(***************************************************************************)
V1 == <<"v", "1">>
V2 == <<"v", "2">>
V9 == <<"v", "9">>

RepoPath == "."

\* the tags of the repository: v1 at time 1, v2 at time 2; v9 is no tag
GitTags == {[name |-> V1, timestamp |-> 1], [name |-> V2, timestamp |-> 2]}

TagNotFound == Error("tag not found")
ZeroTag == [name |-> <<>>, timestamp |-> 0]

SearchForTag(path, ref) ==
    IF \E tag \in GitTags : tag.name = ref
    THEN [tag |-> CHOOSE tag \in GitTags : tag.name = ref, err |-> NoError]
    ELSE [tag |-> ZeroTag, err |-> TagNotFound]

FetchErrors == {Error("tracker unavailable"), Error("rate limit exceeded")}

\* what fetchClosedIssues may answer
fetchClosedIssues ==
    {[issues |-> l, err |-> NoError] : l \in IssueLists}
        \cup {[issues |-> <<>>, err |-> e] : e \in FetchErrors}

ReleaseAt(i, date, draft) == [tag |-> <<"v">> \o Digits(i), date |-> date, draft |-> draft]

ReleaseLists ==
    UNION {{[i \in 1..k |-> ReleaseAt(i, f[i][1], f[i][2])] :
                f \in [1..k -> Times \X BOOLEAN]} : k \in 0..MaxReleases}

\* what fetchAllReleases may answer
fetchAllReleases ==
    {[releases |-> l, err |-> NoError] : l \in ReleaseLists}
        \cup {[releases |-> <<>>, err |-> e] : e \in FetchErrors}

\* what fetchRelease may answer for a ref
fetchRelease(ref) ==
    {[release |-> [tag |-> ref, date |-> d, draft |-> dr], err |-> NoError] :
        d \in Times, dr \in BOOLEAN}
        \cup {[release |-> [tag |-> <<>>, date |-> 0, draft |-> FALSE], err |-> e] :
                e \in FetchErrors}

\* the first release that is no draft, if any
latestNonDraftRelease(releases) ==
    LET nonDraft == {i \in 1..Len(releases) : ~releases[i].draft}
    IN IF nonDraft = {} THEN [found |-> FALSE, release |-> ReleaseAt(0, 0, TRUE)]
       ELSE [found |-> TRUE,
             release |-> releases[CHOOSE i \in nonDraft : \A j \in nonDraft : i <= j]]

(***************************************************************************)
(* The ChangeSummarizer                                                    *)
(***************************************************************************)
ZeroSummarizer ==
    [repoPath |-> "", userName |-> <<>>, repoName |-> <<>>, changeTypeByLabel |-> <<>>]

\* NewChangeSummarizer(path), given git.RemoteUrl's answer and the default table
NewChangeSummarizer(path, remote, table) ==
    IF ~remote.err.nil THEN [s |-> ZeroSummarizer, err |-> remote.err]
    ELSE LET pair == extractGithubUserAndRepo(remote.url)
         IN IF pair[1] = <<>> \/ pair[2] = <<>>
            THEN [s |-> ZeroSummarizer, err |-> ParseError(remote.url)]
            ELSE [s |-> [repoPath |-> path,
                         userName |-> pair[1],
                         repoName |-> pair[2],
                         changeTypeByLabel |-> table],
                  err |-> NoError]

TagURL(sm, tag) ==
    HttpsGithub \o sm.userName \o <<"/">> \o sm.repoName \o TreeSeg \o tag

ChangesURL(sm, sinceRef, untilRef) ==
    HttpsGithub \o sm.userName \o <<"/">> \o sm.repoName \o CompareSeg
        \o sinceRef \o Dots3 \o untilRef

NilRelease == [nil |-> TRUE, version |-> <<>>, date |-> 0]
ReleaseOf(r) == [nil |-> FALSE, version |-> r.tag, date |-> r.date]

\* what a call returns: the fields its method does not return keep their zero value
ZeroResult == [url |-> <<>>, release |-> NilRelease, summaries |-> <<>>, err |-> NoError]

\* Release(ref), given fetchRelease's answer
Release(sm, answer) ==
    IF ~answer.err.nil
    THEN [ZeroResult EXCEPT !.err = answer.err]
    ELSE [ZeroResult EXCEPT !.release = ReleaseOf(answer.release)]

\* faulty variant: the release the tracker lists first is taken, draft or not
LastReleaseByPosition(sm, answer) ==
    IF ~answer.err.nil
    THEN [ZeroResult EXCEPT !.err = FetchReleasesError(answer.err)]
    ELSE IF Len(answer.releases) > 0
         THEN [ZeroResult EXCEPT !.release = ReleaseOf(answer.releases[1])]
         ELSE [ZeroResult EXCEPT !.err = NoReleaseError]

\* LastRelease(), given fetchAllReleases' answer
LastRelease(sm, answer) ==
    IF ~answer.err.nil
    THEN [ZeroResult EXCEPT !.err = FetchReleasesError(answer.err)]
    ELSE LET latest == latestNonDraftRelease(answer.releases)
         IN IF latest.found
            THEN [ZeroResult EXCEPT !.release = ReleaseOf(latest.release)]
            ELSE [ZeroResult EXCEPT !.err = NoReleaseError]

\* the filters Changes starts with, once the since tag is resolved
SinceFilters(sm, sinceTag) ==
    <<issuesAfter(sinceTag.timestamp), issuesWithLabel(labels(sm.changeTypeByLabel))>>

\* faulty variant: the until tag's filter built with the since filter's constructor
UntilFilterAfter(untilTag) == issuesAfter(untilTag.timestamp)

\* the filter Changes appends once the until tag is resolved
UntilFilter(untilTag) == issuesBefore(untilTag.timestamp)

Reference(issue) == [text |-> <<"#">> \o Digits(issue.number), url |-> issue.url]

Summary(issue, types) ==
    [text |-> issue.title,
     changeTypes |-> types,
     timestamp |-> issue.closedAt,
     references |-> <<Reference(issue)>>]

\* faulty variant: each summary is put in front of the ones built before it
RECURSIVE SummariesPrepending(_, _)
SummariesPrepending(sm, filteredIssues) ==
    IF filteredIssues = <<>> THEN <<>>
    ELSE LET issue == Head(filteredIssues)
             types == changeTypes(sm.changeTypeByLabel, issue.labels)
         IN SummariesPrepending(sm, Tail(filteredIssues))
                \o (IF Cardinality(types) > 0 THEN <<Summary(issue, types)>> ELSE <<>>)

\* the loop of Changes over the filtered issues
RECURSIVE Summaries(_, _)
Summaries(sm, filteredIssues) ==
    IF filteredIssues = <<>> THEN <<>>
    ELSE LET issue == Head(filteredIssues)
             types == changeTypes(sm.changeTypeByLabel, issue.labels)
         IN (IF Cardinality(types) > 0 THEN <<Summary(issue, types)>> ELSE <<>>)
                \o Summaries(sm, Tail(filteredIssues))

(***************************************************************************)
(* Calls.  A caller is idle, inside Changes (which talks to the tracker,   *)
(* then to git once or twice, then computes), or has returned; it drops    *)
(* what was returned before it calls again.                                *)
(***************************************************************************)
ZeroLocals == [allClosedIssues |-> <<>>, filters |-> <<>>]
ZeroCall == [op |-> "", a |-> <<>>, b |-> <<>>]

Ready(t) == built = "ok" /\ pc[t] = "idle"

Begin(t, op, a, b) ==
    /\ call' = [call EXCEPT ![t] = [op |-> op, a |-> a, b |-> b]]
    /\ locals' = [locals EXCEPT ![t] = ZeroLocals]
    /\ trace' = [trace EXCEPT ![t] = <<>>]

Return(t, res) ==
    /\ result' = [result EXCEPT ![t] = res]
    /\ pc' = [pc EXCEPT ![t] = "returned"]
    /\ locals' = [locals EXCEPT ![t] = ZeroLocals]

CallTagURL(t, tag) ==
    /\ Ready(t)
    /\ Begin(t, "TagURL", tag, <<>>)
    /\ result' = [result EXCEPT ![t] = [ZeroResult EXCEPT !.url = TagURL(s, tag)]]
    /\ pc' = [pc EXCEPT ![t] = "returned"]
    /\ UNCHANGED <<app, remoteUrl, built, s, newErr>>

CallChangesURL(t, sinceRef, untilRef) ==
    /\ Ready(t)
    /\ Begin(t, "ChangesURL", sinceRef, untilRef)
    /\ result' = [result EXCEPT ![t] =
                    [ZeroResult EXCEPT !.url = ChangesURL(s, sinceRef, untilRef)]]
    /\ pc' = [pc EXCEPT ![t] = "returned"]
    /\ UNCHANGED <<app, remoteUrl, built, s, newErr>>

CallRelease(t, ref) ==
    /\ Ready(t)
    /\ \E answer \in fetchRelease(ref) :
        /\ call' = [call EXCEPT ![t] = [op |-> "Release", a |-> ref, b |-> <<>>]]
        /\ trace' = [trace EXCEPT ![t] =
                        <<[fn |-> "fetchRelease", user |-> s.userName,
                           repo |-> s.repoName, answer |-> answer]>>]
        /\ Return(t, Release(s, answer))
    /\ UNCHANGED <<app, remoteUrl, built, s, newErr>>

CallLastRelease(t, answers) ==
    /\ Ready(t)
    /\ \E answer \in answers :
        /\ call' = [call EXCEPT ![t] = [op |-> "LastRelease", a |-> <<>>, b |-> <<>>]]
        /\ trace' = [trace EXCEPT ![t] =
                        <<[fn |-> "fetchAllReleases", user |-> s.userName,
                           repo |-> s.repoName, answer |-> answer]>>]
        /\ Return(t, LastRelease(s, answer))
    /\ UNCHANGED <<app, remoteUrl, built, s, newErr>>

\* Changes(sinceRef, untilRef) is entered
CallChanges(t, sinceRef, untilRef) ==
    /\ Ready(t)
    /\ Begin(t, "Changes", sinceRef, untilRef)
    /\ result' = [result EXCEPT ![t] = ZeroResult]
    /\ pc' = [pc EXCEPT ![t] = "fetchClosedIssues"]
    /\ UNCHANGED <<app, remoteUrl, built, s, newErr>>

\* faulty variant: a failed fetch is tried once more before the error is returned
ChangesFetchRetrying(t, answers) ==
    /\ pc[t] = "fetchClosedIssues"
    /\ \E answer \in answers :
        /\ trace' = [trace EXCEPT ![t] =
                        Append(@, [fn |-> "fetchClosedIssues", user |-> s.userName,
                                   repo |-> s.repoName, answer |-> answer])]
        /\ IF ~answer.err.nil /\ Len(trace[t]) > 0
           THEN Return(t, [ZeroResult EXCEPT !.err = answer.err])
           ELSE IF ~answer.err.nil
           THEN UNCHANGED <<pc, locals, result>>
           ELSE /\ locals' = [locals EXCEPT ![t].allClosedIssues = answer.issues]
                /\ pc' = [pc EXCEPT ![t] = "searchSince"]
                /\ UNCHANGED result
    /\ UNCHANGED <<app, remoteUrl, built, s, newErr, call>>

\* line 79-82: fetch all closed issues
ChangesFetch(t, answers) ==
    /\ pc[t] = "fetchClosedIssues"
    /\ \E answer \in answers :
        /\ trace' = [trace EXCEPT ![t] =
                        Append(@, [fn |-> "fetchClosedIssues", user |-> s.userName,
                                   repo |-> s.repoName, answer |-> answer])]
        /\ IF ~answer.err.nil
           THEN Return(t, [ZeroResult EXCEPT !.err = answer.err])
           ELSE /\ locals' = [locals EXCEPT ![t].allClosedIssues = answer.issues]
                /\ pc' = [pc EXCEPT ![t] = "searchSince"]
                /\ UNCHANGED result
    /\ UNCHANGED <<app, remoteUrl, built, s, newErr, call>>

\* faulty variant: the until tag is looked up whether or not untilRef is empty
ChangesSinceAlwaysUntil(t) ==
    /\ pc[t] = "searchSince"
    /\ LET answer == SearchForTag(s.repoPath, call[t].a)
       IN /\ trace' = [trace EXCEPT ![t] =
                        Append(@, [fn |-> "SearchForTag", path |-> s.repoPath,
                                   ref |-> call[t].a, answer |-> answer])]
          /\ IF ~answer.err.nil
             THEN Return(t, [ZeroResult EXCEPT !.err = answer.err])
             ELSE /\ locals' = [locals EXCEPT ![t].filters = SinceFilters(s, answer.tag)]
                  /\ pc' = [pc EXCEPT ![t] = "searchUntil"]
                  /\ UNCHANGED result
    /\ UNCHANGED <<app, remoteUrl, built, s, newErr, call>>

\* line 84-92: resolve the since tag and start the filter list
ChangesSince(t) ==
    /\ pc[t] = "searchSince"
    /\ LET answer == SearchForTag(s.repoPath, call[t].a)
       IN /\ trace' = [trace EXCEPT ![t] =
                        Append(@, [fn |-> "SearchForTag", path |-> s.repoPath,
                                   ref |-> call[t].a, answer |-> answer])]
          /\ IF ~answer.err.nil
             THEN Return(t, [ZeroResult EXCEPT !.err = answer.err])
             ELSE /\ locals' = [locals EXCEPT ![t].filters = SinceFilters(s, answer.tag)]
                  /\ pc' = [pc EXCEPT ![t] =
                              IF call[t].b # <<>> THEN "searchUntil" ELSE "summarize"]
                  /\ UNCHANGED result
    /\ UNCHANGED <<app, remoteUrl, built, s, newErr, call>>

\* faulty variant: an until tag that is not found is ignored, the upper bound dropped
ChangesUntilIgnoringError(t) ==
    /\ pc[t] = "searchUntil"
    /\ LET answer == SearchForTag(s.repoPath, call[t].b)
       IN /\ trace' = [trace EXCEPT ![t] =
                        Append(@, [fn |-> "SearchForTag", path |-> s.repoPath,
                                   ref |-> call[t].b, answer |-> answer])]
          /\ locals' = [locals EXCEPT ![t].filters =
                            IF answer.err.nil THEN Append(@, UntilFilter(answer.tag)) ELSE @]
          /\ pc' = [pc EXCEPT ![t] = "summarize"]
          /\ UNCHANGED result
    /\ UNCHANGED <<app, remoteUrl, built, s, newErr, call>>

\* line 94-101: resolve the until tag and append its filter
ChangesUntil(t) ==
    /\ pc[t] = "searchUntil"
    /\ LET answer == SearchForTag(s.repoPath, call[t].b)
       IN /\ trace' = [trace EXCEPT ![t] =
                        Append(@, [fn |-> "SearchForTag", path |-> s.repoPath,
                                   ref |-> call[t].b, answer |-> answer])]
          /\ IF ~answer.err.nil
             THEN Return(t, [ZeroResult EXCEPT !.err = answer.err])
             ELSE /\ locals' = [locals EXCEPT ![t].filters =
                                    Append(@, UntilFilter(answer.tag))]
                  /\ pc' = [pc EXCEPT ![t] = "summarize"]
                  /\ UNCHANGED result
    /\ UNCHANGED <<app, remoteUrl, built, s, newErr, call>>

\* faulty variant: uncategorized issues are summarized too (no label filter, no
\* test of the classification)
ChangesSummarizeUncategorized(t) ==
    /\ pc[t] = "summarize"
    /\ LET timeFilters == SelectSeq(locals[t].filters, LAMBDA f : f.kind # "withLabel")
           kept == filterIssues(locals[t].allClosedIssues, timeFilters)
       IN Return(t, [ZeroResult EXCEPT !.summaries =
                [k \in 1..Len(kept) |->
                    Summary(kept[k], changeTypes(s.changeTypeByLabel, kept[k].labels))]])
    /\ UNCHANGED <<app, remoteUrl, built, s, newErr, call, trace>>

\* faulty variant: classifying records the labels it met in the Summarizer's table
ChangesSummarizeRecordingLabels(t) ==
    /\ pc[t] = "summarize"
    /\ Return(t, [ZeroResult EXCEPT !.summaries =
                    Summaries(s, filterIssues(locals[t].allClosedIssues, locals[t].filters))])
    /\ LET table == s.changeTypeByLabel
           met == UNION {locals[t].allClosedIssues[i].labels :
                            i \in 1..Len(locals[t].allClosedIssues)}
       IN s' = [s EXCEPT !.changeTypeByLabel =
                    [l \in DOMAIN table \cup met |->
                        IF l \in DOMAIN table THEN table[l] ELSE {}]]
    /\ UNCHANGED <<app, remoteUrl, built, newErr, call, trace>>

\* line 103-125: filter, classify, summarize, return
ChangesSummarize(t) ==
    /\ pc[t] = "summarize"
    /\ Return(t, [ZeroResult EXCEPT !.summaries =
                    Summaries(s, filterIssues(locals[t].allClosedIssues, locals[t].filters))])
    /\ UNCHANGED <<app, remoteUrl, built, s, newErr, call, trace>>

\* the caller is done with what the call returned
Discard(t) ==
    /\ pc[t] = "returned"
    /\ pc' = [pc EXCEPT ![t] = "idle"]
    /\ call' = [call EXCEPT ![t] = ZeroCall]
    /\ result' = [result EXCEPT ![t] = ZeroResult]
    /\ trace' = [trace EXCEPT ![t] = <<>>]
    /\ UNCHANGED <<app, remoteUrl, built, s, newErr, locals>>

(***************************************************************************)
(* Specification: one caller uses a Summarizer constructed for             *)
(* git@github.com:acme/widgets.git                                         *)
(***************************************************************************)
Acme == <<"a", "c", "m", "e">>
Widgets == <<"w", "i", "d", "g", "e", "t", "s">>
GithubRemote(owner, repo) ==
    GitAt \o GithubCom \o <<":">> \o owner \o <<"/">> \o repo \o DotGit

Refs == {V1, V2, V9}

IdleThreads ==
    /\ pc = [t \in Threads |-> "idle"]
    /\ call = [t \in Threads |-> ZeroCall]
    /\ locals = [t \in Threads |-> ZeroLocals]
    /\ result = [t \in Threads |-> ZeroResult]
    /\ trace = [t \in Threads |-> <<>>]

Init ==
    /\ remoteUrl = [url |-> GithubRemote(Acme, Widgets), err |-> NoError]
    /\ \E table \in defaultLabelChangeTypes :
        LET new == NewChangeSummarizer(RepoPath, remoteUrl, table)
        IN /\ s = new.s
           /\ newErr = new.err
           /\ built = IF new.err.nil THEN "ok" ELSE "failed"
    /\ IdleThreads
    /\ app = AppIdle

Next ==
    \/ \E tag \in Refs : CallTagURL("t1", tag)
    \/ \E a \in Refs, b \in Refs \cup {<<>>} : CallChangesURL("t1", a, b)
    \/ \E ref \in Refs : CallRelease("t1", ref)
    \/ CallLastRelease("t1", fetchAllReleases)
    \/ \E a \in Refs, b \in Refs \cup {<<>>} : CallChanges("t1", a, b)
    \/ ChangesFetch("t1", fetchClosedIssues)
    \/ ChangesSince("t1")
    \/ ChangesUntil("t1")
    \/ ChangesSummarize("t1")
    \/ Discard("t1")

Spec == Init /\ [][Next]_vars

(***************************************************************************)
(* What the claims speak about, stated from a call's arguments and the     *)
(* answers of its collaborators                                            *)
(***************************************************************************)
ChangesReturned(t) == call[t].op = "Changes" /\ pc[t] = "returned"
ChangesSucceeded(t) == ChangesReturned(t) /\ result[t].err.nil

\* the answer of the call's closed-issue fetch (its first collaborator call)
FetchAnswer(t) == trace[t][1].answer
Fetched(t) == FetchAnswer(t).issues

IsTag(ref) == \E tag \in GitTags : tag.name = ref
TimeOf(ref) == (CHOOSE tag \in GitTags : tag.name = ref).timestamp

Classification(issue) ==
    {ct \in UNION {s.changeTypeByLabel[l] : l \in DOMAIN s.changeTypeByLabel} :
        \E l \in issue.labels \cap DOMAIN s.changeTypeByLabel :
            ct \in s.changeTypeByLabel[l]}

RefText(issue) == <<"#">> \o Digits(issue.number)

Summarized(t, issue) ==
    \E k \in 1..Len(result[t].summaries) :
        result[t].summaries[k].references[1].text = RefText(issue)

InWindow(t, issue) ==
    /\ issue.closedAt > TimeOf(call[t].a)
    /\ call[t].b # <<>> => issue.closedAt <= TimeOf(call[t].b)

Qualifies(t, issue) == InWindow(t, issue) /\ Classification(issue) # {}

\* C1: a successful Changes returns no summary with empty changeTypes, and
\* no summary for a fetched issue whose labels classify to the empty set.
C1_NoUncategorizedSummary ==
    \A t \in Threads : ChangesSucceeded(t) =>
        /\ \A k \in 1..Len(result[t].summaries) :
                result[t].summaries[k].changeTypes # {}
        /\ \A i \in 1..Len(Fetched(t)) :
                Classification(Fetched(t)[i]) = {} => ~Summarized(t, Fetched(t)[i])

\* an uncategorized issue inside the window was left out while another
\* issue of the same answer was summarized
C1_Witness ==
    \E t \in Threads :
        /\ ChangesSucceeded(t)
        /\ Len(result[t].summaries) > 0
        /\ \E i \in 1..Len(Fetched(t)) :
            /\ InWindow(t, Fetched(t)[i])
            /\ Fetched(t)[i].labels # {}
            /\ Classification(Fetched(t)[i]) = {}
            /\ ~Summarized(t, Fetched(t)[i])

\* C2: with a non-empty untilRef, an issue is summarized only if
\* since.timestamp < closedAt <= until.timestamp; an issue closed exactly at
\* the since timestamp is left out, and an issue with a recognized label
\* closed exactly at the until timestamp (and after the since timestamp) is
\* summarized.
C2_WindowBounds ==
    \A t \in Threads : (ChangesSucceeded(t) /\ call[t].b # <<>>) =>
        \A i \in 1..Len(Fetched(t)) :
            LET issue == Fetched(t)[i]
                since == TimeOf(call[t].a)
                until == TimeOf(call[t].b)
            IN /\ Summarized(t, issue) =>
                    (since < issue.closedAt /\ issue.closedAt <= until)
               /\ issue.closedAt = since => ~Summarized(t, issue)
               /\ (issue.closedAt = until /\ since < until
                        /\ issue.labels \cap DOMAIN s.changeTypeByLabel # {})
                    => Summarized(t, issue)

\* one answer holds an issue closed at the since timestamp, left out, and an
\* issue closed at the until timestamp, summarized
C2_Witness ==
    \E t \in Threads :
        /\ ChangesSucceeded(t)
        /\ call[t].b # <<>>
        /\ \E i, j \in 1..Len(Fetched(t)) :
            /\ Fetched(t)[i].closedAt = TimeOf(call[t].a)
            /\ Classification(Fetched(t)[i]) # {}
            /\ ~Summarized(t, Fetched(t)[i])
            /\ Fetched(t)[j].closedAt = TimeOf(call[t].b)
            /\ Summarized(t, Fetched(t)[j])

\* what makes Changes fail: the fetch, the since tag, or a non-empty until ref
ChangesMustFail(t) ==
    \/ ~FetchAnswer(t).err.nil
    \/ ~IsTag(call[t].a)
    \/ (call[t].b # <<>> /\ ~IsTag(call[t].b))

\* C3: Changes returns an error and no summaries exactly when the fetch
\* failed, the since tag is unknown or a non-empty untilRef is no tag;
\* otherwise it returns a list (possibly empty) and no error.
C3_NoPartialSuccess ==
    \A t \in Threads : ChangesReturned(t) =>
        /\ ChangesMustFail(t) <=> ~result[t].err.nil
        /\ ~result[t].err.nil => result[t].summaries = <<>>

\* the until tag was not found although the fetched issues hold one that the
\* since bound and the labels admit: the call returned the error and no list
C3_Witness ==
    \E t \in Threads :
        /\ ChangesReturned(t)
        /\ IsTag(call[t].a) /\ call[t].b # <<>> /\ ~IsTag(call[t].b)
        /\ FetchAnswer(t).err.nil
        /\ \E i \in 1..Len(Fetched(t)) :
            /\ Fetched(t)[i].closedAt > TimeOf(call[t].a)
            /\ Classification(Fetched(t)[i]) # {}
        /\ ~result[t].err.nil
        /\ result[t].summaries = <<>>

\* an empty list is a success
C3_EmptySuccess ==
    \E t \in Threads :
        ChangesSucceeded(t) /\ Len(Fetched(t)) > 0 /\ result[t].summaries = <<>>

\* C4: with an empty untilRef no until tag is looked up, a failure is the
\* fetch's or the since tag's, and every fetched issue closed strictly after
\* the since timestamp with a non-empty classification is summarized.
C4_NoUpperBound ==
    \A t \in Threads : (call[t].op = "Changes" /\ call[t].b = <<>>) =>
        /\ Len(trace[t]) <= 2
        /\ \A k \in 1..Len(trace[t]) :
                trace[t][k].fn = "SearchForTag" => (k = 2 /\ trace[t][k].ref = call[t].a)
        /\ pc[t] # "searchUntil"
        /\ ChangesReturned(t) =>
            /\ ~result[t].err.nil => (~FetchAnswer(t).err.nil \/ ~IsTag(call[t].a))
            /\ result[t].err.nil =>
                \A i \in 1..Len(Fetched(t)) :
                    (Fetched(t)[i].closedAt > TimeOf(call[t].a)
                        /\ Classification(Fetched(t)[i]) # {})
                    => Summarized(t, Fetched(t)[i])

\* an issue closed after every tag of the repository is summarized
C4_Witness ==
    \E t \in Threads :
        /\ ChangesSucceeded(t)
        /\ call[t].b = <<>>
        /\ \E i \in 1..Len(Fetched(t)) :
            /\ \A tag \in GitTags : Fetched(t)[i].closedAt > tag.timestamp
            /\ Summarized(t, Fetched(t)[i])

\* the fetched issues that qualify, in the order of the answer
QualifyingIssues(t) == SelectSeq(Fetched(t), LAMBDA issue : Qualifies(t, issue))

\* C5: a successful Changes returns one summary per qualifying issue and no
\* other, in the order of the tracker's answer, each with the issue's title,
\* closedAt and classification and the single reference {"#<number>", url}.
C5_OneSummaryPerQualifyingIssue ==
    \A t \in Threads : ChangesSucceeded(t) =>
        LET q == QualifyingIssues(t)
            out == result[t].summaries
        IN /\ Len(out) = Len(q)
           /\ \A k \in 1..Len(q) :
                /\ out[k].text = q[k].title
                /\ out[k].timestamp = q[k].closedAt
                /\ out[k].changeTypes = Classification(q[k])
                /\ Len(out[k].references) = 1
                /\ out[k].references[1].text = RefText(q[k])
                /\ out[k].references[1].url = q[k].url

\* two summaries come back in the tracker's order although the first issue
\* was closed after the second, with a dropped issue elsewhere in the answer
C5_Witness ==
    \E t \in Threads :
        /\ ChangesSucceeded(t)
        /\ Len(result[t].summaries) = 2
        /\ result[t].summaries[1].timestamp > result[t].summaries[2].timestamp
        /\ result[t].summaries[1].references[1].text = <<"#", "9">>
        /\ result[t].summaries[2].references[1].text = <<"#", "1", "0">>

LastReleaseReturned(t) == call[t].op = "LastRelease" /\ pc[t] = "returned"

\* the releases fetchAllReleases answered with
Releases(t) == trace[t][1].answer.releases

C8_FetchFailed ==
    \E t \in Threads :
        /\ LastReleaseReturned(t)
        /\ ~trace[t][1].answer.err.nil
        /\ ~result[t].err.nil

FetchCount(t) ==
    Cardinality({k \in 1..Len(trace[t]) : trace[t][k].fn = "fetchClosedIssues"})

\* C10: a Changes call fetches the closed issues exactly once, as its first
\* collaborator call (before any tag is resolved), and summarizes only
\* issues of that answer; a failed fetch ends the call with that error, no
\* second fetch and no tag lookup.
C10_OneFetchFirstNoRetry ==
    \A t \in Threads : call[t].op = "Changes" =>
        /\ FetchCount(t) <= 1
        /\ Len(trace[t]) > 0 => trace[t][1].fn = "fetchClosedIssues"
        /\ pc[t] = "fetchClosedIssues" <=> trace[t] = <<>>
        /\ pc[t] # "fetchClosedIssues" => FetchCount(t) = 1
        /\ (Len(trace[t]) > 0 /\ ~FetchAnswer(t).err.nil) =>
            /\ pc[t] = "returned"
            /\ Len(trace[t]) = 1
            /\ result[t].err = FetchAnswer(t).err
            /\ result[t].summaries = <<>>
        /\ ChangesSucceeded(t) =>
            \A k \in 1..Len(result[t].summaries) :
                \E i \in 1..Len(Fetched(t)) :
                    /\ result[t].summaries[k].references[1].text = RefText(Fetched(t)[i])
                    /\ result[t].summaries[k].timestamp = Fetched(t)[i].closedAt

\* a call whose fetch failed has returned after that one collaborator call
C10_Witness ==
    \E t \in Threads :
        /\ ChangesReturned(t)
        /\ Len(trace[t]) = 1
        /\ ~FetchAnswer(t).err.nil
        /\ result[t].err = FetchAnswer(t).err

\* a call that resolved both tags fetched once, before them
C10_FetchThenTags ==
    \E t \in Threads :
        /\ ChangesSucceeded(t)
        /\ Len(trace[t]) = 3
        /\ trace[t][1].fn = "fetchClosedIssues"
        /\ trace[t][2].fn = "SearchForTag" /\ trace[t][3].fn = "SearchForTag"

(***************************************************************************)
(* Specification: construction from any remote URL, then the URL methods   *)
(***************************************************************************)
Https == <<"h", "t", "t", "p", "s", ":", "/", "/">>

UrlPrefixes == {GitAt, <<"g", "i", "t">>, Https, <<>>}
UrlHosts == {GithubCom, <<"h">>, <<>>}
UrlColons == {<<":">>, <<>>, <<":", "2", "2", ":">>}
UrlNames ==
    {<<>>, <<"a">>, Acme, Widgets, <<"a", "/", "b">>, <<"a", ":", "b">>,
     <<"r">> \o DotGit, DotGit}
UrlSlashes == {<<"/">>, <<>>}
UrlSuffixes == {DotGit, <<>>, <<".", "g", "i">>, <<"/">>}

RemoteUrls ==
    {p \o h \o c \o o \o sl \o r \o x :
        p \in UrlPrefixes, h \in UrlHosts, c \in UrlColons, o \in UrlNames,
        sl \in UrlSlashes, r \in UrlNames, x \in UrlSuffixes}

\* what git.RemoteUrl may answer
RemoteUrl ==
    {[url |-> u, err |-> NoError] : u \in RemoteUrls}
        \cup {[url |-> <<>>, err |-> Error("no remote configured")]}

InitUrl ==
    /\ remoteUrl \in RemoteUrl
    /\ built = "no"
    /\ s = ZeroSummarizer
    /\ newErr = NoError
    /\ IdleThreads
    /\ app = AppIdle

Construct ==
    /\ built = "no"
    /\ \E table \in defaultLabelChangeTypes :
        LET new == NewChangeSummarizer(RepoPath, remoteUrl, table)
        IN /\ s' = new.s
           /\ newErr' = new.err
           /\ built' = IF new.err.nil THEN "ok" ELSE "failed"
    /\ UNCHANGED <<app, remoteUrl, pc, call, locals, result, trace>>

NextUrl ==
    \/ Construct
    \/ \E tag \in Refs : CallTagURL("t1", tag)
    \/ \E a \in Refs, b \in Refs \cup {<<>>} : CallChangesURL("t1", a, b)
    \/ Discard("t1")

SpecUrl == InitUrl /\ [][NextUrl]_vars

NoSeparator(name) == \A k \in 1..Len(name) : name[k] \notin {"/", ":"}

\* url is git@<host>:<owner>/<repo>.git with non-empty host, owner and repo
IsSshShape(url) ==
    \E i, j \in 1..Len(url) :
        /\ i < j
        /\ HasPrefix(url, GitAt) /\ HasSuffix(url, DotGit)
        /\ url[i] = ":" /\ url[j] = "/"
        /\ i > Len(GitAt) + 1
        /\ j > i + 1
        /\ j < Len(url) - Len(DotGit)
        /\ NoSeparator(SubSeq(url, Len(GitAt) + 1, i - 1))
        /\ NoSeparator(SubSeq(url, i + 1, j - 1))
        /\ NoSeparator(SubSeq(url, j + 1, Len(url) - Len(DotGit)))

\* C6: construction succeeds only for a remote URL of the shape
\* git@host:owner/repo.git with non-empty owner and repo, and fails for every
\* other URL and whenever the extracted owner or repo is empty.
C6_OnlySshShapeAccepted ==
    built # "no" =>
        /\ built = "ok" <=> (remoteUrl.err.nil /\ IsSshShape(remoteUrl.url))
        /\ built = "ok" => (s.userName # <<>> /\ s.repoName # <<>>)

\* the part of C6 the code keeps: no Summarizer with an empty owner or repo
C6_NoEmptyCoordinate ==
    /\ built = "ok" => (s.userName # <<>> /\ s.repoName # <<>> /\ newErr.nil)
    /\ built = "failed" => (s = ZeroSummarizer /\ ~newErr.nil)

\* git@acme/widgets.git, which has no "host:" part, is accepted with owner
\* "git@acme"
C6_ColonlessUrlAccepted ==
    /\ built = "ok"
    /\ remoteUrl.url = GitAt \o Acme \o <<"/">> \o Widgets \o DotGit
    /\ s.userName = GitAt \o Acme
    /\ s.repoName = Widgets

CleanNames == {n \in UrlNames : n # <<>> /\ NoSeparator(n)}

\* C7: constructed from git@github.com:<owner>/<repo>.git (owner and repo
\* non-empty, without '/' and ':'), the Summarizer holds exactly owner and
\* repo, TagURL(tag) is https://github.com/<owner>/<repo>/tree/<tag> and
\* ChangesURL(since, until) is
\* https://github.com/<owner>/<repo>/compare/<since>...<until>.
C7_CoordinatesRoundTrip ==
    \A owner \in CleanNames, repo \in CleanNames :
        (built # "no" /\ remoteUrl.err.nil /\ remoteUrl.url = GithubRemote(owner, repo)) =>
            LET base == Https \o GithubCom \o <<"/">> \o owner \o <<"/">> \o repo
            IN /\ built = "ok"
               /\ s.userName = owner
               /\ s.repoName = repo
               /\ \A t \in Threads :
                    /\ (pc[t] = "returned" /\ call[t].op = "TagURL") =>
                            result[t].url = base \o <<"/", "t", "r", "e", "e", "/">> \o call[t].a
                    /\ (pc[t] = "returned" /\ call[t].op = "ChangesURL") =>
                            result[t].url =
                                base \o <<"/", "c", "o", "m", "p", "a", "r", "e", "/">>
                                    \o call[t].a \o <<".", ".", ".">> \o call[t].b

\* git@github.com:acme/widgets.git gave {acme, widgets} and TagURL("v1")
\* returned https://github.com/acme/widgets/tree/v1
C7_Witness ==
    /\ built = "ok"
    /\ remoteUrl.url = GithubRemote(Acme, Widgets)
    /\ s.userName = Acme /\ s.repoName = Widgets
    /\ pc["t1"] = "returned" /\ call["t1"].op = "TagURL" /\ call["t1"].a = V1
    /\ result["t1"].url = Https \o GithubCom \o <<"/">> \o Acme \o <<"/">> \o Widgets
                            \o <<"/", "t", "r", "e", "e", "/">> \o V1

\* a repository name that itself ends in .git keeps it: one suffix is removed
C7_DotGitRepo ==
    /\ built = "ok"
    /\ remoteUrl.url = GithubRemote(Acme, <<"r">> \o DotGit)
    /\ s.repoName = <<"r">> \o DotGit
    /\ pc["t1"] = "returned" /\ call["t1"].op = "ChangesURL"

(***************************************************************************)
(* Specification: two callers use the same Summarizer at the same time     *)
(***************************************************************************)
ConcIssueAnswers ==
    {[issues |-> l, err |-> NoError] :
        l \in UNION {IssueListsOf(k, {{"bug"}, {"wontfix"}}, {MaxTime - 1}) : k \in 0..1}}
        \cup {[issues |-> <<>>, err |-> Error("tracker unavailable")]}

ConcReleaseAnswers ==
    {[releases |-> l, err |-> NoError] :
        l \in {<<>>, <<ReleaseAt(1, 0, TRUE)>>, <<ReleaseAt(1, 0, FALSE)>>}}
        \cup {[releases |-> <<>>, err |-> Error("tracker unavailable")]}

NextConc ==
    \E t \in Threads :
        \/ CallTagURL(t, V1)
        \/ CallChangesURL(t, V1, V2)
        \/ CallRelease(t, V1)
        \/ CallLastRelease(t, ConcReleaseAnswers)
        \/ \E a \in {V1, V9}, b \in {V2, <<>>} : CallChanges(t, a, b)
        \/ ChangesFetch(t, ConcIssueAnswers)
        \/ ChangesSince(t)
        \/ ChangesUntil(t)
        \/ ChangesSummarize(t)
        \/ Discard(t)

SpecConc == Init /\ [][NextConc]_vars

\* what Changes returns when it runs alone with these answers
ChangesAlone(t) ==
    IF ~FetchAnswer(t).err.nil THEN [ZeroResult EXCEPT !.err = FetchAnswer(t).err]
    ELSE IF ChangesMustFail(t) THEN [ZeroResult EXCEPT !.err = TagNotFound]
    ELSE LET q == QualifyingIssues(t)
         IN [ZeroResult EXCEPT !.summaries =
                [k \in 1..Len(q) |->
                    [text |-> q[k].title,
                     changeTypes |-> Classification(q[k]),
                     timestamp |-> q[k].closedAt,
                     references |-> <<[text |-> RefText(q[k]), url |-> q[k].url]>>]]]

\* what LastRelease returns when it runs alone with this answer
LastReleaseAlone(t) ==
    LET answer == trace[t][1].answer
        rs == answer.releases
    IN IF ~answer.err.nil
       THEN [ZeroResult EXCEPT
                !.err = Error("unable to fetch all releases: " \o answer.err.msg)]
       ELSE IF \A i \in 1..Len(rs) : rs[i].draft
       THEN [ZeroResult EXCEPT !.err = Error("unable to find latest release")]
       ELSE LET i == CHOOSE i \in 1..Len(rs) :
                        ~rs[i].draft /\ \A j \in 1..(i - 1) : rs[j].draft
            IN [ZeroResult EXCEPT
                    !.release = [nil |-> FALSE, version |-> rs[i].tag, date |-> rs[i].date]]

\* what Release returns when it runs alone with this answer
ReleaseAlone(t) ==
    LET answer == trace[t][1].answer
    IN IF ~answer.err.nil THEN [ZeroResult EXCEPT !.err = answer.err]
       ELSE [ZeroResult EXCEPT
                !.release = [nil |-> FALSE, version |-> answer.release.tag,
                             date |-> answer.release.date]]

UrlBase == Https \o GithubCom \o <<"/">> \o s.userName \o <<"/">> \o s.repoName

Alone(t) ==
    CASE call[t].op = "Changes" -> ChangesAlone(t)
      [] call[t].op = "LastRelease" -> LastReleaseAlone(t)
      [] call[t].op = "Release" -> ReleaseAlone(t)
      [] call[t].op = "TagURL" ->
            [ZeroResult EXCEPT !.url = UrlBase \o TreeSeg \o call[t].a]
      [] call[t].op = "ChangesURL" ->
            [ZeroResult EXCEPT
                !.url = UrlBase \o CompareSeg \o call[t].a \o Dots3 \o call[t].b]

ReturnsAsAlone == \A t \in Threads : pc[t] = "returned" => result[t] = Alone(t)

\* C9: whatever callers do at the same time, no step changes the
\* Summarizer's state (repoPath, userName, repoName, changeTypeByLabel), and
\* every call that has returned, with or without an error, returned what it
\* returns alone with the same collaborator answers.
C9_StateNeverModified ==
    [][(built = "ok" => (built' = "ok" /\ s' = s)) /\ ReturnsAsAlone']_vars

\* one caller returned a summary while the other, having met an unknown
\* label, is between two collaborator calls of its own Changes
C9_Witness ==
    /\ ChangesSucceeded("t1")
    /\ Len(result["t1"].summaries) = 1
    /\ call["t2"].op = "Changes"
    /\ pc["t2"] = "searchUntil"
    /\ Len(locals["t2"].allClosedIssues) = 1
    /\ locals["t2"].allClosedIssues[1].labels = {"wontfix"}

\* one caller's Changes failed while the other's LastRelease succeeded
C9_FailedBesideSucceeded ==
    /\ ChangesReturned("t1") /\ ~result["t1"].err.nil
    /\ pc["t2"] = "returned" /\ call["t2"].op = "LastRelease" /\ result["t2"].err.nil

(***************************************************************************)
(* Specification: LoadApplicationConfig on any configuration               *)
(***************************************************************************)
InitConfig ==
    /\ app \in {AppOf(in) : in \in AppInputs}
    /\ remoteUrl = [url |-> GithubRemote(Acme, Widgets), err |-> NoError]
    /\ built = "no"
    /\ s = ZeroSummarizer
    /\ newErr = NoError
    /\ IdleThreads

NextConfig ==
    \/ LoadUnmarshal
    \/ LoadParse

SpecConfig == InitConfig /\ [][NextConfig]_vars

BothSet(cfg) == cfg.SpeculateNextVersion /\ cfg.UntilTag # ""

ParseRan == app.pc = "returned" /\ app.parseCalled

\* C11: parseConfigValues rejects every configuration with
\* SpeculateNextVersion and a non-empty UntilTag: it returns its error with
\* the log level not set and no field parser run, the configuration as it
\* was, and LoadApplicationConfig returns an error and no configuration; a
\* configuration with at most one of the two is not rejected with that error.
C11_BothFlagsRejectedFirst ==
    ParseRan =>
        /\ BothSet(app.unmarshalled) =>
            /\ app.parseErr = Error("cannot specify both --speculate-next-version and --until-tag")
            /\ app.ran = <<>>
            /\ app.cfg = app.unmarshalled
            /\ app.cfg.Log.LevelOpt = "" /\ ~app.cfg.parsed
            /\ app.ret.returned /\ ~app.ret.err.nil /\ ~app.ret.hasConfig
        /\ ~BothSet(app.unmarshalled) =>
            /\ app.parseErr # Error("cannot specify both --speculate-next-version and --until-tag")
            /\ Len(app.ran) >= 1 /\ app.ran[1] = "logLevel"
            /\ app.parseErr.nil => (app.ret.hasConfig /\ app.ret.err.nil)

\* both flags set in a configuration whose verbosity would otherwise set the
\* log level and whose field parsers would succeed: rejected, nothing touched
C11_Witness ==
    /\ ParseRan
    /\ BothSet(app.unmarshalled)
    /\ app.in.Verbosity = 2 /\ ~app.in.Quiet /\ ~app.in.fieldsFail
    /\ app.cfg = app.unmarshalled
    /\ ~app.ret.err.nil /\ ~app.ret.hasConfig

\* only --speculate-next-version set: the configuration is returned
C11_OneFlagAccepted ==
    /\ ParseRan
    /\ app.unmarshalled.SpeculateNextVersion /\ app.unmarshalled.UntilTag = ""
    /\ app.ret.hasConfig /\ app.ret.config.Log.LevelOpt = "trace"

====
